---- MODULE Spec2Model ----
(***************************************************************************)
(* The Smart Elevator Control System of tic_tac_toe.js: class Elevator     *)
(* (a four-state machine with a passenger list, an insertion-ordered       *)
(* target set and a door timer) and class ElevatorSystem (the pending      *)
(* request queue, the scoring dispatcher, tick and the 10-tick sweep).     *)
(*                                                                         *)
(* A JS Set iterates in insertion order, and closestTarget depends on that *)
(* order, so a target set is a duplicate-free sequence.  Passenger ids are *)
(* uuid() strings in the code; the model numbers them 1, 2, ... in order   *)
(* of construction (distinct ids).  tickCount is read only through         *)
(* tickCount % 10, so the model keeps that residue.                        *)
(***************************************************************************)
EXTENDS Integers, Sequences, FiniteSets, TLC

VARIABLES
  elevators,        \* ElevatorSystem.elevators, a sequence of Elevator objects
  pendingRequests,  \* ElevatorSystem.pendingRequests
  tickCount,        \* ElevatorSystem.tickCount modulo 10
  totalFloors,      \* ElevatorSystem.totalFloors
  nextId,           \* the id the next Passenger constructed will get
  alighted,         \* history: ids of the passengers handleAlightings removed
  lastCall          \* history, kept under SpecCalls: the branch the last call took

vars == <<elevators, pendingRequests, tickCount, totalFloors, nextId, alighted, lastCall>>

(* ------------------------------ bounds -------------------------------- *)
NumElevators == 2
TotalFloors == 3
MaxPeople == 2
MaxWeight == 3
MaxReqWeight == 2
MaxRequests == 2

(* ------------------------- program constants -------------------------- *)
DefaultMaxPeople == 8
DefaultMaxWeight == 680
DefaultWeight == 70
DoorOpenTicks == 2
SweepPeriod == 10

IDLE == "IDLE"
MOVING == "MOVING"
OPEN_DOOR == "OPEN_DOOR"
CLOSE_DOOR == "CLOSE_DOOR"
UP == "UP"
DOWN == "DOWN"
NONE == "NONE"

Abs(x) == IF x < 0 THEN -x ELSE x

Range(s) == {s[k] : k \in 1..Len(s)}

(* splice forgotten: the element stays *)
RemoveAt_Keeps(s, i) == s

(* Array.prototype.splice(i, 1), indices from 1 *)
RemoveAt(s, i) == [k \in 1..(Len(s) - 1) |-> IF k < i THEN s[k] ELSE s[k + 1]]

(* class Passenger *)
Passenger(id, fromFloor, toFloor, weight) ==
  [id |-> id, from |-> fromFloor, to |-> toFloor, weight |-> weight]

(* Elevator constructor: floor 1, IDLE, NONE, no passengers, no targets *)
NewElevator(id, floors, maxPeople, maxWeight) ==
  [id |-> id, totalFloors |-> floors, currentFloor |-> 1,
   state |-> IDLE, direction |-> NONE,
   maxPeople |-> maxPeople, maxWeight |-> maxWeight,
   passengers |-> <<>>, targets |-> <<>>, doorTimer |-> 0]

occupancyCount(el) == Len(el.passengers)

RECURSIVE SumWeights(_)
SumWeights(ps) ==
  IF ps = <<>> THEN 0 ELSE ps[1].weight + SumWeights(Tail(ps))

occupancyWeight(el) == SumWeights(el.passengers)

isFull(el) ==
  occupancyCount(el) >= el.maxPeople \/ occupancyWeight(el) >= el.maxWeight

(* Set.prototype.add / delete on an insertion-ordered set *)
SetAdd(targets, floor) ==
  IF floor \in Range(targets) THEN targets ELSE Append(targets, floor)

SetDelete(targets, floor) == SelectSeq(targets, LAMBDA t : t # floor)

openDoorImmediately(el) ==
  [el EXCEPT !.state = OPEN_DOOR, !.direction = NONE, !.doorTimer = DoorOpenTicks]

(* addTarget that only adds the floor and leaves an IDLE elevator idle *)
addTarget_OnlyAdds(el, floor) ==
  IF floor < 1 \/ floor > el.totalFloors THEN el
  ELSE [el EXCEPT !.targets = SetAdd(el.targets, floor)]

(* addTarget that restarts every elevator that is not MOVING, not only an  *)
(* IDLE one                                                                *)
addTarget_Restarts(el, floor) ==
  IF floor < 1 \/ floor > el.totalFloors THEN el
  ELSE LET e1 == [el EXCEPT !.targets = SetAdd(el.targets, floor)] IN
       IF e1.state # MOVING
       THEN IF e1.currentFloor = floor
            THEN openDoorImmediately(e1)
            ELSE [e1 EXCEPT !.state = MOVING,
                            !.direction = IF floor > e1.currentFloor THEN UP ELSE DOWN]
       ELSE e1

addTarget(el, floor) ==
  IF floor < 1 \/ floor > el.totalFloors THEN el
  ELSE LET e1 == [el EXCEPT !.targets = SetAdd(el.targets, floor)] IN
       IF e1.state = IDLE
       THEN IF e1.currentFloor = floor
            THEN openDoorImmediately(e1)
            ELSE [e1 EXCEPT !.state = MOVING,
                            !.direction = IF floor > e1.currentFloor THEN UP ELSE DOWN]
       ELSE e1

(* closestTarget: forEach in insertion order, strict < keeps the first of  *)
(* equally distant targets; best = 0 stands for null / bestDist = Infinity *)
RECURSIVE ClosestLoop(_, _, _, _)
ClosestLoop(el, k, best, bestDist) ==
  IF k > Len(el.targets) THEN best
  ELSE LET t == el.targets[k]
           d == Abs(el.currentFloor - t)
       IN IF best = 0 \/ d < bestDist
          THEN ClosestLoop(el, k + 1, t, d)
          ELSE ClosestLoop(el, k + 1, best, bestDist)

closestTarget(el) ==
  IF Len(el.targets) = 0 THEN el.currentFloor ELSE ClosestLoop(el, 1, 0, 0)

(* the filter inverted: keeps the passengers whose destination is here *)
handleAlightings_Inverted(el) ==
  [el EXCEPT !.passengers = SelectSeq(el.passengers, LAMBDA p : p.to = el.currentFloor)]

handleAlightings(el) ==
  [el EXCEPT !.passengers = SelectSeq(el.passengers, LAMBDA p : p.to # el.currentFloor)]

ReqDir(req) == IF req.to > req.from THEN UP ELSE DOWN

DirectionAdmits(el, req) ==
  el.direction = NONE \/ el.direction = ReqDir(req) \/ Len(el.targets) = 0

(* the people check without the + 1 *)
WillBeFull_OffByOne(el) == occupancyCount(el) > el.maxPeople

WillBeFull(el) == (occupancyCount(el) + 1) > el.maxPeople

(* the weight check without the weight of the request *)
WillBeOverweight_IgnoresRequest(el, req) == occupancyWeight(el) > el.maxWeight

WillBeOverweight(el, req) == (occupancyWeight(el) + req.weight) > el.maxWeight

(* handleBoardings: for (i = length - 1; i >= 0; i--), splice on boarding, *)
(* break when a candidate does not fit and the elevator is full.  The      *)
(* result is the elevator and the queue it mutated.                        *)
RECURSIVE BoardLoop(_, _, _)
BoardLoop(el, pending, i) ==
  IF i < 1 THEN [el |-> el, pending |-> pending]
  ELSE LET req == pending[i] IN
       IF req.from # el.currentFloor THEN BoardLoop(el, pending, i - 1)
       ELSE IF el.state = OPEN_DOOR /\ DirectionAdmits(el, req)
            THEN IF ~WillBeFull(el) /\ ~WillBeOverweight(el, req)
                 THEN BoardLoop([el EXCEPT !.passengers = Append(el.passengers, req),
                                           !.targets = SetAdd(el.targets, req.to)],
                                RemoveAt(pending, i), i - 1)
                 ELSE IF isFull(el)
                      THEN [el |-> el, pending |-> pending]
                      ELSE BoardLoop(el, pending, i - 1)
            ELSE BoardLoop(el, pending, i - 1)

(* the scan that stops at the first candidate that does not fit, full or   *)
(* not                                                                     *)
RECURSIVE BoardLoop_StopsAtMisfit(_, _, _)
BoardLoop_StopsAtMisfit(el, pending, i) ==
  IF i < 1 THEN [el |-> el, pending |-> pending]
  ELSE LET req == pending[i] IN
       IF req.from # el.currentFloor THEN BoardLoop_StopsAtMisfit(el, pending, i - 1)
       ELSE IF el.state = OPEN_DOOR /\ DirectionAdmits(el, req)
            THEN IF ~WillBeFull(el) /\ ~WillBeOverweight(el, req)
                 THEN BoardLoop_StopsAtMisfit(
                        [el EXCEPT !.passengers = Append(el.passengers, req),
                                   !.targets = SetAdd(el.targets, req.to)],
                        RemoveAt(pending, i), i - 1)
                 ELSE [el |-> el, pending |-> pending]
            ELSE BoardLoop_StopsAtMisfit(el, pending, i - 1)

(* the scan from the oldest entry of the queue to the newest *)
RECURSIVE BoardLoop_OldestFirst(_, _, _)
BoardLoop_OldestFirst(el, pending, i) ==
  IF i > Len(pending) THEN [el |-> el, pending |-> pending]
  ELSE LET req == pending[i] IN
       IF req.from # el.currentFloor THEN BoardLoop_OldestFirst(el, pending, i + 1)
       ELSE IF el.state = OPEN_DOOR /\ DirectionAdmits(el, req)
            THEN IF ~WillBeFull(el) /\ ~WillBeOverweight(el, req)
                 THEN BoardLoop_OldestFirst(
                        [el EXCEPT !.passengers = Append(el.passengers, req),
                                   !.targets = SetAdd(el.targets, req.to)],
                        RemoveAt(pending, i), i)
                 ELSE IF isFull(el)
                      THEN [el |-> el, pending |-> pending]
                      ELSE BoardLoop_OldestFirst(el, pending, i + 1)
            ELSE BoardLoop_OldestFirst(el, pending, i + 1)

handleBoardings_OldestFirst(el, pending) == BoardLoop_OldestFirst(el, pending, 1)

handleBoardings_StopsAtMisfit(el, pending) ==
  BoardLoop_StopsAtMisfit(el, pending, Len(pending))

handleBoardings(el, pending) == BoardLoop(el, pending, Len(pending))

StepIdle(el) ==
  IF Len(el.targets) > 0
  THEN LET floor == closestTarget(el) IN
       IF floor # el.currentFloor
       THEN [el EXCEPT !.direction = IF floor > el.currentFloor THEN UP ELSE DOWN,
                       !.state = MOVING]
       ELSE openDoorImmediately(el)
  ELSE el

(* the MOVING step without the bounds checks of currentFloor++ / -- *)
StepMoving_NoClamp(el) ==
  LET e1 == IF el.direction = UP
            THEN [el EXCEPT !.currentFloor = el.currentFloor + 1]
            ELSE IF el.direction = DOWN
                 THEN [el EXCEPT !.currentFloor = el.currentFloor - 1]
                 ELSE el
  IN IF e1.currentFloor \in Range(e1.targets)
     THEN [e1 EXCEPT !.targets = SetDelete(e1.targets, e1.currentFloor),
                     !.state = OPEN_DOOR, !.doorTimer = DoorOpenTicks]
     ELSE e1

StepMoving(el) ==
  LET e1 == IF el.direction = UP
            THEN IF el.currentFloor < el.totalFloors
                 THEN [el EXCEPT !.currentFloor = el.currentFloor + 1] ELSE el
            ELSE IF el.direction = DOWN
                 THEN IF el.currentFloor > 1
                      THEN [el EXCEPT !.currentFloor = el.currentFloor - 1] ELSE el
                 ELSE el
  IN IF e1.currentFloor \in Range(e1.targets)
     THEN [e1 EXCEPT !.targets = SetDelete(e1.targets, e1.currentFloor),
                     !.state = OPEN_DOOR, !.doorTimer = DoorOpenTicks]
     ELSE e1

(* the OPEN_DOOR step that closes the doors whatever doorTimer says *)
StepOpenDoor_ClosesAtOnce(el, pending) ==
  LET b == handleBoardings(handleAlightings(el), pending)
      e1 == [b.el EXCEPT !.doorTimer = b.el.doorTimer - 1]
  IN [el |-> [e1 EXCEPT !.state = CLOSE_DOOR], pending |-> b.pending]

StepOpenDoor(el, pending) ==
  LET b == handleBoardings(handleAlightings(el), pending)
      e1 == [b.el EXCEPT !.doorTimer = b.el.doorTimer - 1]
  IN [el |-> IF e1.doorTimer <= 0 THEN [e1 EXCEPT !.state = CLOSE_DOOR] ELSE e1,
      pending |-> b.pending]

(* the CLOSE_DOOR step that starts moving without choosing a direction *)
StepCloseDoor_KeepsDirection(el) ==
  IF Len(el.targets) > 0
  THEN [el EXCEPT !.state = MOVING]
  ELSE [el EXCEPT !.state = IDLE, !.direction = NONE]

StepCloseDoor(el) ==
  IF Len(el.targets) > 0
  THEN LET next == closestTarget(el) IN
       [el EXCEPT !.direction = IF next > el.currentFloor THEN UP ELSE DOWN,
                  !.state = MOVING]
  ELSE [el EXCEPT !.state = IDLE, !.direction = NONE]

(* stepTick(pendingRequests): the elevator after its step and the queue *)
stepTick(el, pending) ==
  CASE el.state = IDLE -> [el |-> StepIdle(el), pending |-> pending]
    [] el.state = MOVING -> [el |-> StepMoving(el), pending |-> pending]
    [] el.state = OPEN_DOOR -> StepOpenDoor(el, pending)
    [] el.state = CLOSE_DOOR -> [el |-> StepCloseDoor(el), pending |-> pending]

(* Array.prototype.sort((a, b) => a - b) of distinct numbers *)
RECURSIVE SortAsc(_)
SortAsc(s) ==
  IF s = <<>> THEN <<>>
  ELSE LET m == CHOOSE x \in Range(s) : \A y \in Range(s) : x <= y IN
       <<m>> \o SortAsc(SelectSeq(s, LAMBDA x : x # m))

(* status() that sorts the target set itself, not a copy of it *)
status_SortsInPlace(el) ==
  LET e1 == [el EXCEPT !.targets = SortAsc(el.targets)] IN
  [el |-> e1,
   out |-> [id |-> e1.id, floor |-> e1.currentFloor, state |-> e1.state,
            direction |-> e1.direction, people |-> occupancyCount(e1),
            weight |-> occupancyWeight(e1), targets |-> e1.targets]]

(* status(): the elevator after the call and the object returned; the      *)
(* targets are sorted in the array Array.from made of them                 *)
status(el) ==
  [el |-> el,
   out |-> [id |-> el.id, floor |-> el.currentFloor, state |-> el.state,
            direction |-> el.direction, people |-> occupancyCount(el),
            weight |-> occupancyWeight(el), targets |-> SortAsc(el.targets)]]

(* ---------------------------- ElevatorSystem --------------------------- *)

AtFloorNotMoving(el, reqFloor) ==
  el.currentFloor = reqFloor /\ el.state \in {IDLE, OPEN_DOOR, CLOSE_DOOR}

MovingToward(el, reqFloor, reqDir) ==
  \/ el.direction = UP /\ el.currentFloor <= reqFloor /\ reqDir = UP
  \/ el.direction = DOWN /\ el.currentFloor >= reqFloor /\ reqDir = DOWN

(* the score of tryAssignElevator, lower is better *)
Score(el, passenger) ==
  LET reqFloor == passenger.from
      reqDir == ReqDir(passenger)
      dist == Abs(el.currentFloor - reqFloor)
      s0 == dist * 10
      s1 == IF AtFloorNotMoving(el, reqFloor) THEN s0 - 1000 ELSE s0
      s2 == IF el.state = MOVING
            THEN IF MovingToward(el, reqFloor, reqDir) THEN s1 - 200 ELSE s1 + 50
            ELSE s1
  IN IF el.state = IDLE THEN s2 - 50 ELSE s2

(* the score without the bonus of an idle elevator *)
ScoreDirect_NoIdleBonus(el, passenger) ==
  LET reqFloor == passenger.from
      reqDir == ReqDir(passenger)
      dist == Abs(el.currentFloor - reqFloor)
      s0 == dist * 10
      s1 == IF AtFloorNotMoving(el, reqFloor) THEN s0 - 1000 ELSE s0
  IN IF el.state = MOVING
     THEN IF MovingToward(el, reqFloor, reqDir) THEN s1 - 200 ELSE s1 + 50
     ELSE s1

(* the score of tryAssignElevatorDirect *)
ScoreDirect(el, passenger) ==
  LET reqFloor == passenger.from
      reqDir == ReqDir(passenger)
      dist == Abs(el.currentFloor - reqFloor)
      s0 == dist * 10
      s1 == IF AtFloorNotMoving(el, reqFloor) THEN s0 - 1000 ELSE s0
      s2 == IF el.state = MOVING
            THEN IF MovingToward(el, reqFloor, reqDir) THEN s1 - 200 ELSE s1 + 50
            ELSE s1
  IN IF el.state = IDLE THEN s2 - 50 ELSE s2

(* <= for <: the last of equally scored elevators wins *)
Better_OrEqual(score, best, bestScore) == best = 0 \/ score <= bestScore

(* score < bestScore, with bestScore = Infinity while best is null *)
Better(score, best, bestScore) == best = 0 \/ score < bestScore

(* the for-of loop of tryAssignElevator over this.elevators; best = 0 is   *)
(* bestElevator = null with bestScore = Infinity                           *)
RECURSIVE AssignLoop(_, _, _, _, _)
AssignLoop(els, passenger, k, best, bestScore) ==
  IF k > Len(els) THEN best
  ELSE LET el == els[k] IN
       IF isFull(el) THEN AssignLoop(els, passenger, k + 1, best, bestScore)
       ELSE IF passenger.weight + occupancyWeight(el) > el.maxWeight
            THEN AssignLoop(els, passenger, k + 1, best, bestScore)
            ELSE IF Better(Score(el, passenger), best, bestScore)
                 THEN AssignLoop(els, passenger, k + 1, k, Score(el, passenger))
                 ELSE AssignLoop(els, passenger, k + 1, best, bestScore)

(* the for-of loop of tryAssignElevatorDirect *)
RECURSIVE AssignLoopDirect(_, _, _, _, _)
AssignLoopDirect(els, passenger, k, best, bestScore) ==
  IF k > Len(els) THEN best
  ELSE LET el == els[k] IN
       IF isFull(el) THEN AssignLoopDirect(els, passenger, k + 1, best, bestScore)
       ELSE IF passenger.weight + occupancyWeight(el) > el.maxWeight
            THEN AssignLoopDirect(els, passenger, k + 1, best, bestScore)
            ELSE IF Better(ScoreDirect(el, passenger), best, bestScore)
                 THEN AssignLoopDirect(els, passenger, k + 1, k, ScoreDirect(el, passenger))
                 ELSE AssignLoopDirect(els, passenger, k + 1, best, bestScore)

(* tryAssignElevator without its push to pendingRequests *)
tryAssignElevator_NoPush(els, pending, passenger) ==
  LET best == AssignLoop(els, passenger, 1, 0, 0) IN
  IF best # 0
  THEN [els |-> [els EXCEPT ![best] = addTarget(els[best], passenger.from)],
        pending |-> pending,
        assigned |-> best]
  ELSE [els |-> els, pending |-> pending, assigned |-> 0]

(* tryAssignElevator: the elevators and the queue afterwards, and the      *)
(* index of the elevator returned (0 for null)                             *)
tryAssignElevator(els, pending, passenger) ==
  LET best == AssignLoop(els, passenger, 1, 0, 0) IN
  IF best # 0
  THEN [els |-> [els EXCEPT ![best] = addTarget(els[best], passenger.from)],
        pending |-> Append(pending, passenger),
        assigned |-> best]
  ELSE [els |-> els, pending |-> pending, assigned |-> 0]

tryAssignElevatorDirect(els, passenger) ==
  LET best == AssignLoopDirect(els, passenger, 1, 0, 0) IN
  IF best # 0
  THEN [els |-> [els EXCEPT ![best] = addTarget(els[best], passenger.from)],
        assigned |-> best]
  ELSE [els |-> els, assigned |-> 0]

(* the validation without from === to *)
ValidRequest_AllowsSameFloor(fromFloor, toFloor, floors) ==
  ~(fromFloor < 1 \/ fromFloor > floors \/ toFloor < 1 \/ toFloor > floors)

ValidRequest(fromFloor, toFloor, floors) ==
  ~(fromFloor < 1 \/ fromFloor > floors \/ toFloor < 1 \/ toFloor > floors
    \/ fromFloor = toFloor)

(* requestElevator(from, to, weight), the Passenger it constructs having   *)
(* the given id: the elevators and the queue afterwards, and whether the   *)
(* request was ignored as invalid                                          *)
requestElevator(els, pending, floors, id, fromFloor, toFloor, weight) ==
  IF ~ValidRequest(fromFloor, toFloor, floors)
  THEN [els |-> els, pending |-> pending, ignored |-> TRUE]
  ELSE LET passenger == Passenger(id, fromFloor, toFloor, weight)
           r == tryAssignElevator(els, pending, passenger)
       IN IF r.assigned = 0
          THEN [els |-> r.els, pending |-> Append(r.pending, passenger), ignored |-> FALSE]
          ELSE [els |-> r.els, pending |-> r.pending, ignored |-> FALSE]

(* findIndex((p) => p.id === id), 0 for -1 *)
FindIndex(pending, id) ==
  IF \E k \in 1..Len(pending) : pending[k].id = id
  THEN CHOOSE k \in 1..Len(pending) :
         pending[k].id = id /\ \A j \in 1..(k - 1) : pending[j].id # id
  ELSE 0

(* releasePendingToIdleElevators: for (i = length - 1; i >= 0; i--) *)
RECURSIVE ReleaseLoop(_, _, _)
ReleaseLoop(els, pending, i) ==
  IF i < 1 THEN [els |-> els, pending |-> pending]
  ELSE LET r == tryAssignElevatorDirect(els, pending[i]) IN
       IF r.assigned # 0
       THEN LET idx == FindIndex(pending, pending[i].id) IN
            ReleaseLoop(r.els, IF idx # 0 THEN RemoveAt(pending, idx) ELSE pending, i - 1)
       ELSE ReleaseLoop(r.els, pending, i - 1)

releasePendingToIdleElevators(els, pending) == ReleaseLoop(els, pending, Len(pending))

(* the assignment pass that opens tick: every queued request, newest first *)
RECURSIVE AssignPassLoop(_, _, _)
AssignPassLoop(els, pending, i) ==
  IF i < 1 THEN els
  ELSE AssignPassLoop(tryAssignElevatorDirect(els, pending[i]).els, pending, i - 1)

AssignPass(els, pending) == AssignPassLoop(els, pending, Len(pending))

(* for (const el of this.elevators) el.stepTick(this.pendingRequests) *)
RECURSIVE StepLoop(_, _, _)
StepLoop(els, pending, k) ==
  IF k > Len(els) THEN [els |-> els, pending |-> pending]
  ELSE LET r == stepTick(els[k], pending) IN
       StepLoop([els EXCEPT ![k] = r.el], r.pending, k + 1)

StepAll(els, pending) == StepLoop(els, pending, 1)

(* logStatus(): the elevators and the queue after it, and what it logs -   *)
(* the status() of each elevator and the from -> to pairs of the queue     *)
logStatus(els, pending) ==
  [els |-> [k \in 1..Len(els) |-> status(els[k]).el],
   pending |-> pending,
   out |-> [elevators |-> [k \in 1..Len(els) |-> status(els[k]).out],
            pending |-> [i \in 1..Len(pending) |-> <<pending[i].from, pending[i].to>>]]]

(* the sweep on every tick *)
SweepDue_EveryTick(count) == count % 1 = 0

SweepDue(count) == count % SweepPeriod = 0

(* tick() from the queue and elevators before it, with the new tickCount:  *)
(* the assignment pass, the elevators' steps, logStatus and, on a 10th     *)
(* tick, the sweep, each on what the one before it left                    *)
TickResult(els, pending, count) ==
  CHOOSE r \in
    {IF SweepDue(count)
     THEN releasePendingToIdleElevators(logged.els, logged.pending)
     ELSE [els |-> logged.els, pending |-> logged.pending] :
       logged \in {logStatus(stepped.els, stepped.pending) :
                     stepped \in {StepAll(assigned, pending) :
                                    assigned \in {AssignPass(els, pending)}}}} : TRUE

OnBoard(els) == UNION {{p.id : p \in Range(els[k].passengers)} : k \in 1..Len(els)}

PendingIds(pending) == {p.id : p \in Range(pending)}

(* ------------------------------ actions -------------------------------- *)

FloorInputs == 0..(TotalFloors + 1)
WeightInputs == 1..MaxReqWeight

(* new ElevatorSystem(n, floors, {maxPeople, maxWeight}) *)
NewSystem(n, floors, maxPeople, maxWeight) ==
  /\ elevators = [k \in 1..n |-> NewElevator(k, floors, maxPeople, maxWeight)]
  /\ totalFloors = floors
  /\ pendingRequests = <<>>
  /\ tickCount = 0
  /\ nextId = 1
  /\ alighted = {}
  /\ lastCall = "new"

Init ==
  \E n \in 1..NumElevators, maxPeople \in 1..MaxPeople :
    NewSystem(n, TotalFloors, maxPeople, MaxWeight)

(* the effect of one call of requestElevator that returned r *)
Returned(r) ==
  /\ elevators' = r.els
  /\ pendingRequests' = r.pending
  /\ nextId' = IF r.ignored THEN nextId ELSE nextId + 1
  /\ UNCHANGED <<tickCount, totalFloors, alighted>>

(* the calls drawn in this state: floors 0 .. TotalFloors + 1 and weights  *)
(* 1 .. MaxReqWeight; once MaxRequests requests were accepted, only calls  *)
(* with invalid arguments                                                  *)
CallInputs ==
  {c \in FloorInputs \X FloorInputs \X WeightInputs :
     nextId <= MaxRequests \/ ~ValidRequest(c[1], c[2], totalFloors)}

(* what these calls of requestElevator return *)
CallOutcomes ==
  {requestElevator(elevators, pendingRequests, totalFloors, nextId, c[1], c[2], c[3]) :
     c \in CallInputs}

(* one accepted call requestElevator(f, t, w); at most MaxRequests are *)
RequestStep(f, t, w) ==
  LET r == requestElevator(elevators, pendingRequests, totalFloors, nextId, f, t, w) IN
  /\ nextId <= MaxRequests
  /\ ~r.ignored
  /\ Returned(r)

(* one call of tick() *)
TickStep ==
  \E count \in {(tickCount + 1) % SweepPeriod} :
    \E r \in {TickResult(elevators, pendingRequests, count)} :
      /\ tickCount' = count
      /\ elevators' = r.els
      /\ pendingRequests' = r.pending
      /\ alighted' = alighted \cup (OnBoard(elevators) \ OnBoard(r.els))
      /\ UNCHANGED <<totalFloors, nextId>>

Request ==
  \E r \in CallOutcomes :
    /\ Returned(r)
    /\ UNCHANGED lastCall

Tick == TickStep /\ UNCHANGED lastCall

Next == Request \/ Tick

Spec == Init /\ [][Next]_vars

(* the same system with lastCall recording what the last call did *)
LoggedRequest ==
  \E r \in CallOutcomes :
    /\ Returned(r)
    /\ lastCall' = IF r.ignored THEN "ignored" ELSE "requested"

LoggedTick == TickStep /\ lastCall' = "tick"

NextCalls == LoggedRequest \/ LoggedTick

SpecCalls == Init /\ [][NextCalls]_vars

(* one call of logStatus() *)
StatusStep ==
  \E r \in {logStatus(elevators, pendingRequests)} :
    /\ elevators' = r.els
    /\ pendingRequests' = r.pending
    /\ UNCHANGED <<tickCount, totalFloors, nextId, alighted>>

LoggedStatus == StatusStep /\ lastCall' = "status"

(* the system with status reads between the other calls *)
NextStatus == LoggedRequest \/ LoggedTick \/ LoggedStatus

SpecStatus == Init /\ [][NextStatus]_vars

(* Scenario A: one elevator, 3 floors, the default limits (8 people, 680   *)
(* kg), the single request (1, 3, 70) at any tick count while the elevator *)
(* idles at floor 1; the clock keeps calling tick.                         *)
InitA == NewSystem(1, 3, DefaultMaxPeople, DefaultMaxWeight)

RequestA == nextId = 1 /\ RequestStep(1, 3, DefaultWeight) /\ lastCall' = "requested"

NextA == RequestA \/ LoggedTick

SpecA == InitA /\ [][NextA]_vars /\ WF_vars(LoggedTick)

(* Scenario B: one elevator at floor 1 with maxPeople 1; two requests from *)
(* floor 1 are submitted before the first tick.                            *)
InitB == NewSystem(1, TotalFloors, 1, MaxWeight)

RequestB ==
  /\ lastCall # "tick"
  /\ nextId <= 2
  /\ \E t \in 2..TotalFloors, w \in WeightInputs : RequestStep(1, t, w)
  /\ lastCall' = "requested"

NextB == RequestB \/ LoggedTick

SpecB == InitB /\ [][NextB]_vars

(* Scenario C: one elevator with maxPeople MaxPeople and maxWeight         *)
(* MaxWeight; up to MaxRequests + 1 requests, all from floor 1, arrive at  *)
(* any time between the ticks.                                             *)
InitC == NewSystem(1, TotalFloors, MaxPeople, MaxWeight)

RequestC ==
  /\ nextId <= MaxRequests + 1
  /\ \E t \in 2..TotalFloors, w \in WeightInputs :
       Returned(requestElevator(elevators, pendingRequests, totalFloors, nextId, 1, t, w))
  /\ lastCall' = "requested"

NextC == RequestC \/ LoggedTick

SpecC == InitC /\ [][NextC]_vars

(* Scenario D: any system of Init; a single request, with any valid        *)
(* arguments, is submitted at any time; the clock keeps calling tick.      *)
RequestD ==
  /\ nextId = 1
  /\ \E c \in FloorInputs \X FloorInputs \X WeightInputs : RequestStep(c[1], c[2], c[3])
  /\ lastCall' = "requested"

NextD == RequestD \/ LoggedTick

SpecD == Init /\ [][NextD]_vars /\ WF_vars(LoggedTick)

(* ------------------------------ claims --------------------------------- *)

Elevs == 1..Len(elevators)

Accepted == 1..(nextId - 1)

IsTick == tickCount' # tickCount

(* how many passenger-list entries, over all elevators, carry this id *)
Aboard(els, id) ==
  Cardinality({kj \in (1..Len(els)) \X (1..MaxRequests + 1) :
                 /\ kj[2] <= Len(els[kj[1]].passengers)
                 /\ els[kj[1]].passengers[kj[2]].id = id})

(* C1: in every state, every elevator carries between 0 and maxPeople      *)
(* passengers and between 0 and maxWeight of total passenger weight.       *)
C1_CapacityInvariant ==
  \A k \in Elevs :
    /\ 0 <= occupancyCount(elevators[k])
    /\ occupancyCount(elevators[k]) <= elevators[k].maxPeople
    /\ 0 <= occupancyWeight(elevators[k])
    /\ occupancyWeight(elevators[k]) <= elevators[k].maxWeight

(* an elevator with its doors open and room for one more person has left   *)
(* behind a waiting request only because of its weight                     *)
C1_Witness ==
  \E k \in Elevs : \E i \in 1..Len(pendingRequests) :
    /\ elevators[k].state = OPEN_DOOR
    /\ elevators[k].doorTimer = 1
    /\ elevators[k].direction = NONE
    /\ occupancyCount(elevators[k]) >= 1
    /\ occupancyCount(elevators[k]) < elevators[k].maxPeople
    /\ pendingRequests[i].from = elevators[k].currentFloor
    /\ occupancyWeight(elevators[k]) + pendingRequests[i].weight > elevators[k].maxWeight

(* C2 (as claimed): every accepted request is in the pending queue, or in  *)
(* exactly one elevator's passenger list, or has alighted.                 *)
C2_NoRequestDisappears ==
  \A id \in Accepted :
    \/ id \in PendingIds(pendingRequests)
    \/ Aboard(elevators, id) = 1
    \/ id \in alighted

(* C3: a request that is aboard is in exactly one passenger list, once,    *)
(* and not in the pending queue; a request that has alighted is in no      *)
(* passenger list (and not in the queue either).                           *)
C3_QueueConsistency ==
  \A id \in Accepted :
    /\ Aboard(elevators, id) >= 1 =>
         /\ Aboard(elevators, id) = 1
         /\ id \notin PendingIds(pendingRequests)
         /\ id \notin alighted
    /\ id \in alighted =>
         /\ Aboard(elevators, id) = 0
         /\ id \notin PendingIds(pendingRequests)

(* two elevators stood with doors open at the same floor in the same tick  *)
(* and each boarded a request there                                        *)
C3_Witness ==
  /\ Len(elevators) >= 2
  /\ elevators[1].state = OPEN_DOOR /\ elevators[2].state = OPEN_DOOR
  /\ elevators[1].currentFloor = elevators[2].currentFloor
  /\ elevators[1].doorTimer = 1 /\ elevators[2].doorTimer = 1
  /\ Len(elevators[1].passengers) = 1 /\ Len(elevators[2].passengers) = 1
  /\ elevators[1].passengers[1].from = elevators[1].currentFloor
  /\ elevators[2].passengers[1].from = elevators[2].currentFloor

(* C4 (as claimed): an elevator that is MOVING when its step of a tick     *)
(* starts (after the tick's assignment pass) ends the step one floor       *)
(* further in its direction.                                               *)
C4_MotionLaw ==
  [][IsTick =>
       \A k \in Elevs :
         LET mid == AssignPass(elevators, pendingRequests)[k] IN
         mid.state = MOVING =>
           /\ mid.direction = UP => elevators'[k].currentFloor = mid.currentFloor + 1
           /\ mid.direction = DOWN => elevators'[k].currentFloor = mid.currentFloor - 1
           /\ mid.direction \in {UP, DOWN}]_vars

(* C5: in Scenario A, once the request (1, 3, 70) is submitted the doors   *)
(* are open at floor 1 while it waits; it is then boarded at floor 1, it   *)
(* later alights with the doors open at floor 3 and nowhere else, and from *)
(* some point on                                                           *)
(* the pending queue and the passenger list stay empty.                    *)
C5_ScenarioA ==
  /\ [](pendingRequests # <<>> =>
          elevators[1].state = OPEN_DOOR /\ elevators[1].currentFloor = 1)
  /\ (pendingRequests # <<>>) ~>
        (/\ elevators[1].passengers = <<Passenger(1, 1, 3, DefaultWeight)>>
         /\ elevators[1].state = OPEN_DOOR /\ elevators[1].currentFloor = 1
         /\ pendingRequests = <<>>)
  /\ [](alighted # {} => elevators[1].currentFloor = 3)
  /\ (elevators[1].passengers # <<>>) ~>
        (/\ alighted = {1}
         /\ elevators[1].state = OPEN_DOOR /\ elevators[1].currentFloor = 3)
  /\ (nextId = 2) ~> [](pendingRequests = <<>> /\ elevators[1].passengers = <<>>)

(* the passenger has alighted at floor 3 and the elevator has gone idle *)
C5_Witness ==
  /\ nextId = 2 /\ alighted = {1}
  /\ pendingRequests = <<>> /\ elevators[1].passengers = <<>>
  /\ elevators[1].state = IDLE /\ elevators[1].currentFloor = 3
  /\ elevators[1].maxPeople = DefaultMaxPeople /\ elevators[1].maxWeight = DefaultMaxWeight

(* the arguments the claims call valid: both floors in [1, totalFloors]    *)
(* and different                                                           *)
InRange(f) == f \in 1..totalFloors

ValidArgs == {c \in FloorInputs \X FloorInputs \X WeightInputs :
                InRange(c[1]) /\ InRange(c[2]) /\ c[1] # c[2]}

InvalidArgs == (FloorInputs \X FloorInputs \X WeightInputs) \ ValidArgs

Call(c) == requestElevator(elevators, pendingRequests, totalFloors, nextId, c[1], c[2], c[3])

(* C6: in every state, a requestElevator call with a floor out of range or *)
(* with origin = destination leaves the pending queue and every elevator   *)
(* (targets, state, direction, doorTimer, passengers) as they were.        *)
C6_RejectionChangesNothing ==
  \A c \in InvalidArgs :
    /\ Call(c).ignored
    /\ Call(c).pending = pendingRequests
    /\ Call(c).els = elevators

(* an invalid call was made, and ignored, while a request was queued and   *)
(* an elevator had targets and its doors open                              *)
C6_Witness ==
  /\ lastCall = "ignored"
  /\ pendingRequests # <<>>
  /\ \E k \in Elevs : elevators[k].targets # <<>> /\ elevators[k].state = OPEN_DOOR

(* C7: in every state, a requestElevator call with valid arguments returns *)
(* with the pending queue equal to the queue before plus the new request,  *)
(* once, at its end - whether or not an elevator was assigned.             *)
C7_ValidRequestAppendedOnce ==
  \A c \in ValidArgs :
    /\ ~Call(c).ignored
    /\ Call(c).pending = Append(pendingRequests, Passenger(nextId, c[1], c[2], c[3]))

(* a request was accepted and queued behind an older one although the only *)
(* elevator was full, so that none was assigned                            *)
C7_Witness ==
  /\ Len(elevators) = 1 /\ isFull(elevators[1])
  /\ elevators[1].state = OPEN_DOOR /\ elevators[1].doorTimer = 1
  /\ Len(pendingRequests) = 1 /\ pendingRequests[1].id = 2
  /\ pendingRequests[1].from \notin Range(elevators[1].targets)

(* C8: in Scenario B, the first tick after two requests from floor 1 ends  *)
(* with exactly one of them aboard and the other still queued, and no tick *)
(* that starts and ends with one passenger aboard changes who is aboard.   *)
C8_ScenarioB ==
  [][IsTick =>
       /\ (lastCall # "tick" /\ nextId = 3) =>
            /\ Len(elevators'[1].passengers) = 1
            /\ Len(pendingRequests') = 1
            /\ {elevators'[1].passengers[1].id, pendingRequests'[1].id} = {1, 2}
       /\ (nextId = 3 /\ occupancyCount(elevators[1]) = 1
             /\ occupancyCount(elevators'[1]) = 1) =>
            /\ elevators'[1].passengers = elevators[1].passengers
            /\ pendingRequests' = pendingRequests]_vars

(* the elevator has come back to floor 1 with its one passenger still      *)
(* aboard and stands with open doors where the other request waits         *)
C8_Witness ==
  /\ nextId = 3 /\ lastCall = "tick"
  /\ Len(elevators[1].passengers) = 1 /\ Len(pendingRequests) = 1
  /\ elevators[1].maxPeople = 1
  /\ elevators[1].state = OPEN_DOOR /\ elevators[1].doorTimer = 1
  /\ elevators[1].direction # NONE
  /\ elevators[1].currentFloor = pendingRequests[1].from

(* the claim's eligibility and score, for a request (origin f, destination *)
(* t, weight w) and elevator k                                             *)
Eligible(k, w) ==
  /\ ~(Len(elevators[k].passengers) >= elevators[k].maxPeople
       \/ SumWeights(elevators[k].passengers) >= elevators[k].maxWeight)
  /\ SumWeights(elevators[k].passengers) + w <= elevators[k].maxWeight

ClaimScore(k, f, t) ==
  LET el == elevators[k]
      toward == \/ el.direction = UP /\ t > f /\ el.currentFloor <= f
                \/ el.direction = DOWN /\ t < f /\ el.currentFloor >= f
  IN 10 * Abs(el.currentFloor - f)
       + (IF el.currentFloor = f /\ el.state # MOVING THEN -1000 ELSE 0)
       + (IF el.state = MOVING THEN (IF toward THEN -200 ELSE 50) ELSE 0)
       + (IF el.state = IDLE THEN -50 ELSE 0)

(* the eligible elevator of minimum score, the first of them on a tie; 0   *)
(* when none is eligible                                                   *)
ClaimChoice(f, t, w) ==
  LET E == {k \in Elevs : Eligible(k, w)} IN
  IF E = {} THEN 0
  ELSE CHOOSE k \in E :
         \A j \in E : \/ ClaimScore(k, f, t) < ClaimScore(j, f, t)
                      \/ ClaimScore(k, f, t) = ClaimScore(j, f, t) /\ k <= j

(* C9: in every state and for every valid request, tryAssignElevator and   *)
(* tryAssignElevatorDirect both pick the eligible elevator of minimum      *)
(* score, the first in enumeration order on a tie, and pick none exactly   *)
(* when no elevator is eligible.                                           *)
C9_AssignmentPicksMinimumScore ==
  \A c \in ValidArgs :
    LET p == Passenger(nextId, c[1], c[2], c[3]) IN
    /\ tryAssignElevator(elevators, pendingRequests, p).assigned = ClaimChoice(c[1], c[2], c[3])
    /\ tryAssignElevatorDirect(elevators, p).assigned = ClaimChoice(c[1], c[2], c[3])
    /\ (tryAssignElevatorDirect(elevators, p).assigned = 0)
         <=> (\A k \in Elevs : ~Eligible(k, c[3]))

(* two eligible elevators at different floors and in different states tie  *)
(* on the score of some request, and a heavier request has no eligible     *)
(* elevator at all                                                         *)
C9_Witness ==
  /\ Len(elevators) = 2
  /\ elevators[1].currentFloor # elevators[2].currentFloor
  /\ elevators[1].state # elevators[2].state
  /\ \E c \in ValidArgs :
       /\ Eligible(1, c[3]) /\ Eligible(2, c[3])
       /\ ClaimScore(1, c[1], c[2]) = ClaimScore(2, c[1], c[2])
  /\ \E c \in ValidArgs : \A k \in Elevs : ~Eligible(k, c[3])

(* the target set with the origin floor added *)
WithOrigin(targets, origin) ==
  IF \E n \in 1..Len(targets) : targets[n] = origin
  THEN targets ELSE targets \o <<origin>>

(* the claim's frame: only the winner changes, and only in its target set *)
OnlyTargetAdded(before, after, origin, winner) ==
  \A k \in 1..Len(before) :
    after[k] = IF k = winner
               THEN [before[k] EXCEPT !.targets = WithOrigin(before[k].targets, origin)]
               ELSE before[k]

(* the amended frame: only the winner changes; its target set gains the    *)
(* origin; a winner that was IDLE also opens its doors (at the origin      *)
(* floor) or starts moving toward the origin; nothing else changes         *)
WinnerStarted(before, after, origin, winner) ==
  /\ \A k \in 1..Len(before) : k # winner => after[k] = before[k]
  /\ winner # 0 =>
       LET b == before[winner]
           added == [b EXCEPT !.targets = WithOrigin(b.targets, origin)]
       IN after[winner] =
            IF b.state # IDLE THEN added
            ELSE IF b.currentFloor = origin
                 THEN [added EXCEPT !.state = OPEN_DOOR, !.direction = NONE,
                                    !.doorTimer = DoorOpenTicks]
                 ELSE [added EXCEPT !.state = MOVING,
                                    !.direction = IF origin > b.currentFloor THEN UP ELSE DOWN]

Frame(amended, before, after, origin, winner) ==
  IF amended THEN WinnerStarted(before, after, origin, winner)
  ELSE OnlyTargetAdded(before, after, origin, winner)

(* the frame at each assignment of the per-tick assignment pass *)
RECURSIVE PassFrames(_, _, _, _)
PassFrames(amended, els, pending, i) ==
  IF i < 1 THEN TRUE
  ELSE LET r == tryAssignElevatorDirect(els, pending[i]) IN
       /\ Frame(amended, els, r.els, pending[i].from, r.assigned)
       /\ PassFrames(amended, r.els, pending, i - 1)

(* the frame at each assignment of the 10-tick sweep *)
RECURSIVE SweepFrames(_, _, _, _)
SweepFrames(amended, els, pending, i) ==
  IF i < 1 THEN TRUE
  ELSE LET r == tryAssignElevatorDirect(els, pending[i]) IN
       /\ Frame(amended, els, r.els, pending[i].from, r.assigned)
       /\ SweepFrames(amended, r.els,
                      IF r.assigned # 0 THEN RemoveAt(pending, FindIndex(pending, pending[i].id))
                      ELSE pending,
                      i - 1)

(* the frame at every assignment the next call could make: requestElevator *)
(* with any valid arguments, the assignment pass of tick, and the sweep    *)
(* when the next tick is a 10th one                                        *)
AssignmentFrames(amended) ==
  /\ \A c \in ValidArgs :
       LET p == Passenger(nextId, c[1], c[2], c[3])
           r == tryAssignElevator(elevators, pendingRequests, p)
       IN /\ Frame(amended, elevators, r.els, c[1], r.assigned)
          /\ Call(c).els = r.els
  /\ PassFrames(amended, elevators, pendingRequests, Len(pendingRequests))
  /\ SweepDue((tickCount + 1) % SweepPeriod) =>
       LET stepped == StepAll(AssignPass(elevators, pendingRequests), pendingRequests) IN
       SweepFrames(amended, stepped.els, stepped.pending, Len(stepped.pending))

(* C10 (as claimed): every dispatcher assignment changes only the winning  *)
(* elevator's target set, by adding the origin floor: no passenger list,   *)
(* no doorTimer, no other elevator.                                        *)
C10_AssignmentOnlyAddsTarget == AssignmentFrames(FALSE)

(* C10 (amended): every dispatcher assignment changes only the winning     *)
(* elevator and never a passenger list: it adds the origin floor to the    *)
(* winner's targets and, when the winner is IDLE, also opens its doors     *)
(* (OPEN_DOOR, NONE, doorTimer 2) if it is at the origin floor or else     *)
(* starts it MOVING toward the origin; a winner that is not IDLE changes   *)
(* in its target set only.                                                 *)
C10_AssignmentStartsOnlyIdleWinner == AssignmentFrames(TRUE)

(* an assignment has opened the doors of an idle elevator at the origin    *)
(* floor while the next tick, a 10th one, will sweep a queued request      *)
C10_Witness ==
  /\ SweepDue((tickCount + 1) % SweepPeriod)
  /\ Len(pendingRequests) = 2
  /\ \E k \in Elevs :
       /\ elevators[k].state = OPEN_DOOR /\ elevators[k].doorTimer = DoorOpenTicks
       /\ elevators[k].direction = NONE /\ elevators[k].passengers = <<>>
       /\ pendingRequests[2].from = elevators[k].currentFloor
       /\ elevators[k].currentFloor \in Range(elevators[k].targets)
  /\ \E k \in Elevs : elevators[k].state = MOVING

(* an elevator of els that the dispatcher may choose for a request of      *)
(* weight w: not full, and the weight fits                                 *)
EligibleIn(els, w) ==
  \E k \in 1..Len(els) :
    /\ Len(els[k].passengers) < els[k].maxPeople
    /\ SumWeights(els[k].passengers) < els[k].maxWeight
    /\ SumWeights(els[k].passengers) + w <= els[k].maxWeight

C11_Kept ==
  /\ tickCount = 0 /\ nextId = 3
  /\ Len(pendingRequests) = 1
  /\ Len(elevators) = 1 /\ Len(elevators[1].passengers) = 1
  /\ elevators[1].state = MOVING

(* C12: in every state, every elevator's currentFloor is between 1 and     *)
(* totalFloors.                                                            *)
C12_FloorInRange ==
  \A k \in Elevs :
    /\ 1 <= elevators[k].currentFloor
    /\ elevators[k].currentFloor <= totalFloors
    /\ elevators[k].totalFloors = totalFloors

(* an elevator is MOVING DOWN at floor 1 with a passenger for a floor      *)
(* above: its next step is the one the bounds check keeps at floor 1       *)
C12_Witness ==
  \E k \in Elevs :
    /\ elevators[k].state = MOVING /\ elevators[k].direction = DOWN
    /\ elevators[k].currentFloor = 1
    /\ elevators[k].passengers # <<>>
    /\ 1 \notin Range(elevators[k].targets)

(* C13: in every state, an elevator whose direction is NONE is IDLE,       *)
(* OPEN_DOOR or CLOSE_DOOR, and a MOVING elevator has direction UP or      *)
(* DOWN.                                                                   *)
C13_DirectionNoneNotMoving ==
  \A k \in Elevs :
    /\ elevators[k].direction = NONE =>
         elevators[k].state \in {IDLE, OPEN_DOOR, CLOSE_DOOR}
    /\ elevators[k].state = MOVING => elevators[k].direction \in {UP, DOWN}
    /\ elevators[k].direction \in {UP, DOWN, NONE}
    /\ elevators[k].state \in {IDLE, MOVING, OPEN_DOOR, CLOSE_DOOR}

(* an elevator whose doors were opened where it idled (direction NONE) has *)
(* closed them with a passenger aboard: its next step starts it moving     *)
C13_Witness ==
  \E k \in Elevs :
    /\ elevators[k].state = CLOSE_DOOR /\ elevators[k].direction = NONE
    /\ elevators[k].passengers # <<>>
    /\ elevators[k].targets # <<>>

(* C14: a status read leaves every elevator (its target set and passengers *)
(* included), the pending queue and the tick count as they were, and a     *)
(* second read right after it returns what the first returned.             *)
C14_StatusReadsChangeNothing ==
  [][lastCall' = "status" =>
       /\ elevators' = elevators
       /\ pendingRequests' = pendingRequests
       /\ tickCount' = tickCount
       /\ \A k \in Elevs :
            /\ elevators'[k].targets = elevators[k].targets
            /\ elevators'[k].passengers = elevators[k].passengers
       /\ logStatus(elevators', pendingRequests').out
            = logStatus(elevators, pendingRequests).out]_vars

(* the status was read while a request waited, a passenger was aboard and  *)
(* an elevator's targets were not in ascending order                       *)
C14_Witness ==
  /\ lastCall = "status"
  /\ pendingRequests # <<>>
  /\ \E k \in Elevs :
       /\ elevators[k].passengers # <<>>
       /\ SortAsc(elevators[k].targets) # elevators[k].targets

(* the targets of el at the least distance from its floor *)
NearestTargets(el) ==
  {t \in Range(el.targets) :
     \A u \in Range(el.targets) : Abs(el.currentFloor - t) <= Abs(el.currentFloor - u)}

(* C15 (as claimed): an elevator that is in CLOSE_DOOR when its step of a  *)
(* tick starts (after the tick's assignment pass) and steps to MOVING gets *)
(* direction UP only if a nearest target is above its floor and DOWN only  *)
(* if a nearest target is below its floor.                                 *)
C15_DirectionTowardNearestTarget ==
  [][IsTick =>
       \A k \in Elevs :
         LET mid == AssignPass(elevators, pendingRequests)[k] IN
         (mid.state = CLOSE_DOOR /\ elevators'[k].state = MOVING) =>
           /\ elevators'[k].direction = UP =>
                \E t \in NearestTargets(mid) : t > mid.currentFloor
           /\ elevators'[k].direction = DOWN =>
                \E t \in NearestTargets(mid) : t < mid.currentFloor]_vars

(* the queue as elevator k finds it in its step of the next tick: the      *)
(* steps of the elevators before it have boarded from it                   *)
RECURSIVE QueueAtStep(_, _, _, _)
QueueAtStep(els, pending, j, k) ==
  IF j >= k THEN pending
  ELSE QueueAtStep(els, stepTick(els[j], pending).pending, j + 1, k)

(* request i of queue q fits in el together with every request of the     *)
(* same origin that the scan of the queue meets before it                  *)
FitsWhenScanned(el, q, i) ==
  LET ahead == SelectSeq(SubSeq(q, i, Len(q)), LAMBDA p : p.from = q[i].from) IN
  /\ Len(el.passengers) + Len(ahead) <= el.maxPeople
  /\ SumWeights(el.passengers) + SumWeights(ahead) <= el.maxWeight

(* C16 (as claimed): in the OPEN_DOOR step of an elevator in a tick, a     *)
(* queued request whose origin is the elevator's floor and which fits the  *)
(* people and weight limits boards if the elevator's direction is NONE, or *)
(* equals the request's direction, or the elevator has no target other     *)
(* than this floor when the request is scanned (it is the first request of *)
(* this floor that the scan meets, so that none has boarded before it).    *)
C16_BoardingAdmission ==
  [][IsTick =>
       \A k \in Elevs :
         LET mid == AssignPass(elevators, pendingRequests)
             el == handleAlightings(mid[k])
             q == QueueAtStep(mid, pendingRequests, 1, k)
         IN el.state = OPEN_DOOR =>
              \A i \in 1..Len(q) :
                (/\ q[i].from = el.currentFloor
                 /\ FitsWhenScanned(el, q, i)
                 /\ \/ el.direction = NONE
                    \/ el.direction = ReqDir(q[i])
                    \/ /\ Range(el.targets) \subseteq {el.currentFloor}
                       /\ \A j \in (i + 1)..Len(q) : q[j].from # q[i].from)
                => q[i].id \in {p.id : p \in Range(elevators'[k].passengers)}]_vars

(* C17: an elevator enters OPEN_DOOR with doorTimer 2 - on arrival in its  *)
(* MOVING step, or by addTarget of its own floor while IDLE (in a request, *)
(* the assignment pass or the sweep); its first OPEN_DOOR step after that  *)
(* leaves it in OPEN_DOOR with doorTimer 1 and its second puts it in       *)
(* CLOSE_DOOR; each of the two steps alights before it boards (nobody      *)
(* aboard after it is at their destination, and who is aboard was aboard   *)
(* or boarded from the queue at this floor); a request or an assignment    *)
(* changes neither the state nor the doorTimer of an elevator in           *)
(* OPEN_DOOR.                                                              *)
C17_DoorDwellTwoSteps ==
  [][/\ IsTick =>
          \A k \in Elevs :
            LET mid == AssignPass(elevators, pendingRequests)[k]
                q == QueueAtStep(AssignPass(elevators, pendingRequests), pendingRequests, 1, k)
            IN /\ elevators[k].state = OPEN_DOOR =>
                    mid.state = OPEN_DOOR /\ mid.doorTimer = elevators[k].doorTimer
               /\ (elevators[k].state # OPEN_DOOR /\ mid.state = OPEN_DOOR) =>
                    mid.doorTimer = 2
               /\ mid.state = OPEN_DOOR =>
                    /\ mid.doorTimer \in {1, 2}
                    /\ mid.doorTimer = 2 =>
                         elevators'[k].state = OPEN_DOOR /\ elevators'[k].doorTimer = 1
                    /\ mid.doorTimer = 1 =>
                         elevators'[k].state = CLOSE_DOOR /\ elevators'[k].doorTimer = 0
                    /\ \A p \in Range(elevators'[k].passengers) :
                         /\ p.to # mid.currentFloor
                         /\ \/ p \in Range(mid.passengers)
                            \/ p \in Range(q) /\ p.from = mid.currentFloor
                    /\ \A p \in Range(mid.passengers) :
                         p.to # mid.currentFloor => p \in Range(elevators'[k].passengers)
               /\ (mid.state # OPEN_DOOR /\ elevators'[k].state = OPEN_DOOR) =>
                    elevators'[k].doorTimer = 2
     /\ ~IsTick =>
          \A k \in Elevs :
            /\ elevators[k].state = OPEN_DOOR =>
                 /\ elevators'[k].state = OPEN_DOOR
                 /\ elevators'[k].doorTimer = elevators[k].doorTimer
            /\ (elevators[k].state # OPEN_DOOR /\ elevators'[k].state = OPEN_DOOR) =>
                 elevators'[k].doorTimer = 2]_vars

(* an elevator has closed its doors after its two steps at a floor it      *)
(* arrived at, where it let one passenger out and took the next one in     *)
C17_Witness ==
  \E k \in Elevs :
    /\ elevators[k].state = CLOSE_DOOR /\ elevators[k].doorTimer = 0
    /\ alighted = {1}
    /\ Len(elevators[k].passengers) = 1
    /\ elevators[k].passengers[1].from = elevators[k].currentFloor
    /\ elevators[k].direction # NONE

(* C18: after the OPEN_DOOR step of an elevator whose direction is NONE,   *)
(* the queue (as that step leaves it, and at the end of the tick) holds no *)
(* request whose origin is the elevator's floor and which still fits       *)
(* within maxPeople and maxWeight.                                         *)
C18_NoFittingRequestLeftBehind ==
  [][IsTick =>
       \A k \in Elevs :
         LET mid == AssignPass(elevators, pendingRequests)
             after == QueueAtStep(mid, pendingRequests, 1, k + 1)
             el == elevators'[k]
             fits(p) == /\ Len(el.passengers) + 1 <= el.maxPeople
                        /\ SumWeights(el.passengers) + p.weight <= el.maxWeight
         IN (mid[k].state = OPEN_DOOR /\ mid[k].direction = NONE) =>
              /\ \A i \in 1..Len(after) :
                   after[i].from = el.currentFloor => ~fits(after[i])
              /\ \A i \in 1..Len(pendingRequests') :
                   pendingRequests'[i].from = el.currentFloor => ~fits(pendingRequests'[i])]_vars

(* the doors stand open at floor 1 (direction NONE); the request scanned   *)
(* first (the newest, weight 2) has boarded, the next (weight 2) did not   *)
(* fit and waits, and the oldest (weight 1), scanned after it, has boarded *)
C18_Witness ==
  /\ lastCall = "tick"
  /\ elevators[1].state = OPEN_DOOR /\ elevators[1].direction = NONE
  /\ elevators[1].currentFloor = 1
  /\ {p.id : p \in Range(elevators[1].passengers)} = {3, 1}
  /\ SumWeights(elevators[1].passengers) = 3
  /\ Len(pendingRequests) = 1
  /\ pendingRequests[1].id = 2 /\ pendingRequests[1].weight = 2
  /\ pendingRequests[1].from = 1

(* the requests the two dispatchers are compared on: every pair of         *)
(* different floors, every weight up to one more than MaxWeight, and every *)
(* request in the queue                                                    *)
ComparedRequests ==
  {Passenger(nextId, f, t, w) : f \in 1..totalFloors, t \in 1..totalFloors,
                                w \in 1..(MaxWeight + 1)}
    \cup Range(pendingRequests)

(* C19: in every state and for every request, tryAssignElevator and        *)
(* tryAssignElevatorDirect return the same elevator (or both none) and     *)
(* leave the same elevators; tryAssignElevator also appends the request to *)
(* the queue exactly when an elevator is returned, and that is the only    *)
(* difference.                                                             *)
C19_AssignersAgree ==
  \A p \in ComparedRequests :
    LET a == tryAssignElevator(elevators, pendingRequests, p)
        d == tryAssignElevatorDirect(elevators, p)
    IN /\ a.assigned = d.assigned
       /\ a.els = d.els
       /\ a.pending = IF a.assigned # 0 THEN Append(pendingRequests, p) ELSE pendingRequests

(* of two elevators the first carries weight 2 of 3, so that only a        *)
(* request of weight 1 may still choose it, and the second is moving; the  *)
(* two elevators are chosen by different requests and none by a third      *)
C19_Witness ==
  /\ Len(elevators) = 2
  /\ occupancyWeight(elevators[1]) = 2 /\ ~isFull(elevators[1])
  /\ elevators[2].state = MOVING
  /\ {tryAssignElevatorDirect(elevators, p).assigned : p \in ComparedRequests} = {0, 1, 2}

(* C20 (as claimed): in Scenario D, where ticks keep coming and nothing is *)
(* submitted after the one request, the request once aboard an elevator    *)
(* has eventually alighted.                                                *)
C20_BoardedEventuallyAlights ==
  (1 \in OnBoard(elevators)) ~> (1 \in alighted)

(* C21: in every state, an elevator in state IDLE has no targets, has      *)
(* direction NONE and has no passengers aboard; and an elevator that is    *)
(* still IDLE when its step of the next tick starts (after that tick's     *)
(* assignment pass) has no targets, so that the IDLE step changes nothing. *)
C21_IdleIsAtRest ==
  \A k \in Elevs :
    /\ elevators[k].state = IDLE =>
         /\ elevators[k].targets = <<>>
         /\ elevators[k].direction = NONE
         /\ elevators[k].passengers = <<>>
    /\ LET mid == AssignPass(elevators, pendingRequests)[k] IN
       mid.state = IDLE =>
         /\ mid.targets = <<>>
         /\ StepIdle(mid) = mid

(* an elevator has gone idle at a floor above the first after its          *)
(* passenger alighted, while a request still waits in the queue            *)
C21_Witness ==
  /\ alighted # {}
  /\ pendingRequests # <<>>
  /\ \E k \in Elevs :
       /\ elevators[k].state = IDLE
       /\ elevators[k].currentFloor > 1

(* the passengers of after that are not in before, in the order they were  *)
(* appended                                                                *)
Boarded(before, after) == SubSeq(after, Len(before) + 1, Len(after))

(* C22 (as claimed): in the OPEN_DOOR step of an elevator in a tick, when  *)
(* all requests waiting at its floor are admissible by direction, the      *)
(* later-submitted requests board before the earlier-submitted ones: a     *)
(* request boards only if every request of this floor submitted after it   *)
(* has boarded, before it; and the requests left in the queue keep their   *)
(* relative order.                                                         *)
C22_LastInFirstBoarded ==
  [][IsTick =>
       \A k \in Elevs :
         LET mid == AssignPass(elevators, pendingRequests)
             el == handleAlightings(mid[k])
             q == QueueAtStep(mid, pendingRequests, 1, k)
             after == QueueAtStep(mid, pendingRequests, 1, k + 1)
             new == Boarded(el.passengers, elevators'[k].passengers)
         IN (/\ el.state = OPEN_DOOR
             /\ \A i \in 1..Len(q) :
                  q[i].from = el.currentFloor =>
                    el.direction = NONE \/ el.direction = ReqDir(q[i]))
            =>
            /\ \A n \in 1..Len(new) :
                 /\ n > 1 => new[n].id < new[n - 1].id
                 /\ \A i \in 1..Len(q) :
                      (q[i].from = el.currentFloor /\ q[i].id > new[n].id) =>
                        \E m \in 1..(n - 1) : new[m] = q[i]
            /\ after = SelectSeq(q, LAMBDA p : p \notin Range(new))]_vars

(* C22 (amended): in the OPEN_DOOR step of an elevator in a tick, when all *)
(* requests waiting at its floor are admissible by direction, the requests *)
(* that board are appended to the passengers newest first (each submitted  *)
(* before the one boarded just before it); a request of this floor is left *)
(* in the queue only if it does not fit together with the newer ones       *)
(* that boarded - so an older, lighter request may board while a newer,    *)
(* heavier one stays; and the queue after the step is the queue before it  *)
(* without the boarded requests, in the same order.                        *)
C22_NewestBoardsFirst ==
  [][IsTick =>
       \A k \in Elevs :
         LET mid == AssignPass(elevators, pendingRequests)
             el == handleAlightings(mid[k])
             q == QueueAtStep(mid, pendingRequests, 1, k)
             after == QueueAtStep(mid, pendingRequests, 1, k + 1)
             new == Boarded(el.passengers, elevators'[k].passengers)
             newer(c) == SelectSeq(new, LAMBDA p : p.id > c.id)
         IN (/\ el.state = OPEN_DOOR
             /\ \A i \in 1..Len(q) :
                  q[i].from = el.currentFloor =>
                    el.direction = NONE \/ el.direction = ReqDir(q[i]))
            =>
            /\ \A i \in 1..(Len(q) - 1) : q[i].id < q[i + 1].id
            /\ SubSeq(elevators'[k].passengers, 1, Len(el.passengers)) = el.passengers
            /\ \A n \in 1..Len(new) :
                 /\ new[n] \in Range(q) /\ new[n].from = el.currentFloor
                 /\ n > 1 => new[n].id < new[n - 1].id
            /\ after = SelectSeq(q, LAMBDA p : p \notin Range(new))
            /\ \A i \in 1..Len(after) :
                 after[i].from = el.currentFloor =>
                   \/ Len(el.passengers) + Len(newer(after[i])) + 1 > el.maxPeople
                   \/ SumWeights(el.passengers) + SumWeights(newer(after[i]))
                        + after[i].weight > el.maxWeight]_vars

(* the doors have closed at floor 1 on the newest request (weight 2) and   *)
(* the oldest (weight 1), boarded in this order, while the request         *)
(* submitted between them (weight 2), which did not fit, is left waiting   *)
C22_Witness ==
  /\ lastCall = "tick"
  /\ elevators[1].state = CLOSE_DOOR /\ elevators[1].direction = NONE
  /\ elevators[1].currentFloor = 1
  /\ Len(elevators[1].passengers) = 2
  /\ elevators[1].passengers[1].id = 3 /\ elevators[1].passengers[1].weight = 2
  /\ elevators[1].passengers[2].id = 1 /\ elevators[1].passengers[2].weight = 1
  /\ Len(pendingRequests) = 1
  /\ pendingRequests[1].id = 2 /\ pendingRequests[1].from = 1

(* three requests of weight 1 waited at floor 1 for the elevator of two    *)
(* places: the third and the second have boarded, in this order, and the   *)
(* first is left in the queue                                              *)
C22_NewestTwoOfThree ==
  /\ lastCall = "tick"
  /\ elevators[1].state = OPEN_DOOR /\ elevators[1].direction = NONE
  /\ elevators[1].currentFloor = 1
  /\ Len(elevators[1].passengers) = 2
  /\ elevators[1].passengers[1].id = 3 /\ elevators[1].passengers[2].id = 2
  /\ SumWeights(elevators[1].passengers) = 2
  /\ Len(pendingRequests) = 1
  /\ pendingRequests[1].id = 1 /\ pendingRequests[1].weight = 1

====
